---- MODULE Spec2Model ----
(***************************************************************************)
(* Prime-field arithmetic of the crypto workspace (crate ff): the 256-bit  *)
(* engine U256FieldElement (p_u256.rs), the single-width 64-bit engine     *)
(* U64FieldElement (p_u64.rs), the widening 64-bit engine FieldElement     *)
(* (lib.rs) and the Miller-Rabin primality test they share (utils.rs).     *)
(*                                                                         *)
(* The machine words are scaled: the native width (u64, U256) is WIDTH     *)
(* bits and the widened intermediate (u128) is 2 * WIDTH bits.  Every      *)
(* operation is a pure function; the state machine is a caller that draws  *)
(* operands, invokes one operation and records its outcome.  The           *)
(* double-and-add loop of the 256-bit multiplication is also run one       *)
(* iteration per step so that its intermediate values are states.          *)
(***************************************************************************)
EXTENDS Integers, Sequences, FiniteSets, TLC

\* Scaled bit width of the native integer (u64 / U256).
WIDTH == 4

RECURSIVE Pow2(_)
Pow2(n) == IF n = 0 THEN 1 ELSE 2 * Pow2(n - 1)

\* u64::MAX / U256::MAX at the scaled width.
MAX_VALUE == Pow2(WIDTH) - 1

\* The values of a native unsigned integer.
Word == 0 .. MAX_VALUE

\* The largest integer handed to the primality tester on its own.
MaxTested == 300

(***************************************************************************)
(* utils.rs: Miller-Rabin over arbitrary-precision integers.               *)
(***************************************************************************)

\* n.to_string().len(): the number of decimal digits of n.
RECURSIVE DecimalLen(_)
DecimalLen(n) == IF n < 10 THEN 1 ELSE 1 + DecimalLen(n \div 10)

\* The body of bmodpow's loop over exponent.to_radix_le(2), least
\* significant bit first (the single 0 digit of exponent 0 changes nothing).
RECURSIVE bmodpow_loop(_, _, _, _)
bmodpow_loop(exponent, my_base, result, modulus) ==
    IF exponent = 0
    THEN result
    ELSE bmodpow_loop(exponent \div 2,
                      (my_base * my_base) % modulus,
                      IF exponent % 2 = 1 THEN (result * my_base) % modulus
                                          ELSE result,
                      modulus)

bmodpow(base, exponent, modulus) ==
    IF base = 0
    THEN (IF exponent = 0 THEN 1 ELSE 0)
    ELSE IF modulus = 1
         THEN 0
         ELSE bmodpow_loop(exponent, base, 1, modulus)

\* The exponent of miller_rabin: n - 1 with its factors of two removed.
RECURSIVE mr_exponent(_)
mr_exponent(e) == IF e % 2 = 0 THEN mr_exponent(e \div 2) ELSE e

\* The counter `trials`: how many times two divides n - 1.
RECURSIVE mr_trials(_)
mr_trials(e) == IF e % 2 = 0 THEN 1 + mr_trials(e \div 2) ELSE 0

\* The inner `for _ in 1..trials` loop with `left` iterations to go: TRUE
\* for `continue 'LOOP`, FALSE for either `return false`.
RECURSIVE mr_squarings(_, _, _)
mr_squarings(result, left, n) ==
    IF left <= 0
    THEN FALSE
    ELSE LET r == (result * result) % n
         IN  IF r = 1 THEN FALSE
             ELSE IF r = n - 1 THEN TRUE
             ELSE mr_squarings(r, left - 1, n)

\* mr_witness_passes without the test `result == n_sub` before the squarings.
mr_witness_passes_no_n_sub(i, n) ==
    LET n_sub    == n - 1
        exponent == mr_exponent(n_sub)
        trials   == mr_trials(n_sub)
        result   == bmodpow(2 + i, exponent, n)
    IN  \/ result = 1
        \/ mr_squarings(result, trials - 1, n)

\* One pass of 'LOOP for the index i (the base is 2 + i).
mr_witness_passes(i, n) ==
    LET n_sub    == n - 1
        exponent == mr_exponent(n_sub)
        trials   == mr_trials(n_sub)
        result   == bmodpow(2 + i, exponent, n)
    IN  \/ result = 1
        \/ result = n_sub
        \/ mr_squarings(result, trials - 1, n)

miller_rabin(n) ==
    IF n < 2 THEN FALSE
    ELSE IF n = 2 \/ n = 3 \/ n = 5 THEN TRUE
    ELSE IF n % 2 = 0 THEN FALSE
    ELSE \A i \in 1 .. (DecimalLen(n) + 1) : mr_witness_passes(i, n)

(***************************************************************************)
(* Outcomes.  An element is an Ok outcome; errors.rs gives the error       *)
(* kinds; Panic is the abort of an unwrap() or of a checked arithmetic     *)
(* operation.                                                              *)
(***************************************************************************)
Ok(num, prime) == [tag |-> "Ok", num |-> num, prime |-> prime]

Err(kind) == [tag |-> kind, num |-> 0, prime |-> 0]

NotPrime == Err("NotPrime")

DifferentFields == Err("DifferentFields")

Panic == Err("Panic")

\* The operand slot of a call that takes no such operand.
NoElem == Err("None")

\* A returned bool.
Bool(v) == [tag |-> IF v THEN "true" ELSE "false", num |-> 0, prime |-> 0]

(***************************************************************************)
(* The state: the build, and the caller of the operations.                 *)
(***************************************************************************)
VARIABLES
    overflow_checks, \* TRUE in a build with overflow checks (debug)
    pc,     \* "idle": nothing called; "mul_loop", "exp_loop", "ec_loop":
            \* inside the loop of the 256-bit mul, of the 256-bit exp, of
            \* the curve exp; "keyed": PrivateKey::new has returned a key;
            \* "encrypted": encrypt has returned the ciphertext;
            \* "done": the call has returned or aborted
    op,     \* the operation called
    a,      \* self (an element, or NoElem)
    b,      \* rhs / other (an element, or NoElem)
    k,      \* the integer argument: raw value of new, exponent of exp
    m,      \* the raw modulus given to new
    out,    \* the outcome of the call
    st,     \* the locals of the running loop: res, base and rhs or exp
    iters,  \* iterations the running loop has completed
    key,    \* the RSA private key the caller has generated, or NoKey
    msg,    \* the plaintext bytes given to encrypt
    cipher  \* the bytes encrypt returned

vars == <<overflow_checks, pc, op, a, b, k, m, out, st, iters,
          key, msg, cipher>>

(***************************************************************************)
(* p_u256.rs: U256FieldElement.  The operators of U256 (+, -) abort on     *)
(* overflow; the trait operators return the element itself, so a failed    *)
(* is_same_field(..).unwrap() aborts the call.                             *)
(***************************************************************************)
\* U256_new without the reduction of num.
U256_new_unreduced(num, prime) ==
    IF miller_rabin(prime) THEN Ok(num, prime) ELSE NotPrime

U256_new(num, prime) ==
    IF miller_rabin(prime) THEN Ok(num % prime, prime) ELSE NotPrime

\* TRUE for Ok(()), FALSE for Err(Error::DifferentFields).
U256_is_same_field(p_1, p_2) == ~(p_1 # p_2)

\* U256_add with the wrap-around correction left out.
U256_add_uncorrected(self, rhs) ==
    IF self.tag # "Ok" THEN self
    ELSE IF rhs.tag # "Ok" THEN rhs
    ELSE IF ~U256_is_same_field(self.prime, rhs.prime) THEN Panic
    ELSE Ok(((self.num + rhs.num) % Pow2(WIDTH)) % self.prime, self.prime)

U256_add(self, rhs) ==
    IF self.tag # "Ok" THEN self
    ELSE IF rhs.tag # "Ok" THEN rhs
    ELSE IF ~U256_is_same_field(self.prime, rhs.prime) THEN Panic
    ELSE LET sum      == self.num + rhs.num
             overflow == sum > MAX_VALUE
             wrapped  == sum % Pow2(WIDTH)
             comp     == (MAX_VALUE - self.prime) + 1
             res      == IF overflow THEN wrapped + comp ELSE wrapped
         IN  IF overflow /\ (comp > MAX_VALUE \/ res > MAX_VALUE)
             THEN Panic
             ELSE Ok(res % self.prime, self.prime)

U256_neg(self) ==
    IF self.tag # "Ok" THEN self
    ELSE IF self.num > self.prime THEN Panic
    ELSE Ok(self.prime - self.num, self.prime)

U256_sub(self, rhs) ==
    IF self.tag # "Ok" THEN self
    ELSE IF rhs.tag # "Ok" THEN rhs
    ELSE IF ~U256_is_same_field(self.prime, rhs.prime) THEN Panic
    ELSE U256_add(self, U256_neg(rhs))

U256_zero(prime) == Ok(0, prime)

U256_one(prime) == Ok(1, prime)

U256_double(self) == U256_add(self, self)

\* U256_mul_step doubling base with a plain wrapping addition.
U256_mul_step_wrapping(s) ==
    [res  |-> IF s.rhs % 2 = 1 THEN U256_add(s.res, s.base) ELSE s.res,
     base |-> IF s.base.tag # "Ok" THEN s.base
              ELSE Ok((2 * s.base.num) % Pow2(WIDTH), s.base.prime),
     rhs  |-> s.rhs \div 2]

\* One iteration of the while loop of mul; s = [res, base, rhs].
U256_mul_step(s) ==
    [res  |-> IF s.rhs % 2 = 1 THEN U256_add(s.res, s.base) ELSE s.res,
     base |-> U256_double(s.base),
     rhs  |-> s.rhs \div 2]

RECURSIVE U256_mul_loop(_)
U256_mul_loop(s) ==
    IF s.rhs = 0 THEN s.res ELSE U256_mul_loop(U256_mul_step(s))

\* The locals of mul on entry to its loop.
U256_mul_entry(self, rhs) ==
    [res |-> Ok(0, self.prime), base |-> self, rhs |-> rhs.num]

U256_mul(self, rhs) ==
    IF self.tag # "Ok" THEN self
    ELSE IF rhs.tag # "Ok" THEN rhs
    ELSE IF ~U256_is_same_field(self.prime, rhs.prime) THEN Panic
    ELSE IF rhs.num = 0 THEN Ok(0, self.prime)
    ELSE U256_mul_loop(U256_mul_entry(self, rhs))

U256_sq(self) == U256_mul(self, self)

\* U256_exp_step clearing a set low bit before it shifts.
U256_exp_step_clear_then_shift(s) ==
    [res  |-> IF s.exp % 2 = 1 THEN U256_mul(s.res, s.base) ELSE s.res,
     base |-> U256_sq(s.base),
     exp  |-> IF s.exp % 2 = 1 THEN s.exp - 1 ELSE s.exp \div 2]

\* One iteration of the while loop of exp; s = [res, base, exp].
U256_exp_step(s) ==
    [res  |-> IF s.exp % 2 = 1 THEN U256_mul(s.res, s.base) ELSE s.res,
     base |-> U256_sq(s.base),
     exp  |-> s.exp \div 2]

RECURSIVE U256_exp_loop(_)
U256_exp_loop(s) ==
    IF s.exp = 0 THEN s.res ELSE U256_exp_loop(U256_exp_step(s))

\* The locals of exp on entry to its loop; exp is the reduced exponent.
U256_exp_entry(self, exp) ==
    [res |-> Ok(1, self.prime), base |-> self, exp |-> exp]

\* U256_exp returning the multiplicative identity for a zero reduced exponent.
U256_exp_one_for_zero(self, exp) ==
    IF self.tag # "Ok" THEN self
    ELSE IF self.prime < 2 THEN Panic
    ELSE LET e == exp % (self.prime - 1)
         IN  IF e = 0
             THEN Ok(1, self.prime)
             ELSE U256_exp_loop([res  |-> Ok(1, self.prime),
                                 base |-> self,
                                 exp  |-> e])

U256_exp(self, exp) ==
    IF self.tag # "Ok" THEN self
    ELSE IF self.prime < 2 THEN Panic
    ELSE LET e == exp % (self.prime - 1)
         IN  IF e = 0
             THEN Ok(0, self.prime)
             ELSE U256_exp_loop([res  |-> Ok(1, self.prime),
                                 base |-> self,
                                 exp  |-> e])

\* U256_inv with an error path for the zero element.
U256_inv_guarded(self) ==
    IF self.tag # "Ok" THEN self
    ELSE IF self.prime < 2 THEN Panic
    ELSE IF self.num = 0 THEN Panic
    ELSE U256_exp(self, self.prime - 2)

U256_inv(self) ==
    IF self.tag # "Ok" THEN self
    ELSE IF self.prime < 2 THEN Panic
    ELSE U256_exp(self, self.prime - 2)

U256_div(self, rhs) == U256_mul(self, U256_inv(rhs))

\* The elements the constructor of the 256-bit engine returns.
U256Elems ==
    {r \in {U256_new(v, q) : v \in Word, q \in Word} : r.tag = "Ok"}

\* The moduli the constructors accept.
Moduli == {x.prime : x \in U256Elems}

(***************************************************************************)
(* p_u64.rs: U64FieldElement.  Every operation returns a Result and `?`    *)
(* hands an Err to the caller.  Native u64 arithmetic aborts on overflow   *)
(* in a build with overflow checks and wraps in a build without them.      *)
(***************************************************************************)

\* `x - y` on a native u64.
U64_checked_sub(x, y) ==
    IF x >= y THEN Ok(x - y, 0)
    ELSE IF overflow_checks THEN Panic
    ELSE Ok((x - y) % Pow2(WIDTH), 0)

\* `x + y` on a native u64.
U64_checked_add(x, y) ==
    IF x + y <= MAX_VALUE THEN Ok(x + y, 0)
    ELSE IF overflow_checks THEN Panic
    ELSE Ok((x + y) % Pow2(WIDTH), 0)

U64_new(num, prime) ==
    IF ~miller_rabin(prime) THEN NotPrime ELSE Ok(num % prime, prime)

\* U64_is_same_field accepting every pair of moduli.
U64_is_same_field_always(p_1, p_2) == TRUE

\* TRUE for Ok(()), FALSE for Err(Error::DifferentFields).
U64_is_same_field(p_1, p_2) == ~(p_1 # p_2)

U64_add(self, other) ==
    IF self.tag # "Ok" THEN self
    ELSE IF other.tag # "Ok" THEN other
    ELSE IF ~U64_is_same_field(self.prime, other.prime) THEN DifferentFields
    ELSE LET sum      == self.num + other.num
             overflow == sum > MAX_VALUE
             wrapped  == sum % Pow2(WIDTH)
             comp     == MAX_VALUE - self.prime
             res      == IF overflow THEN U64_checked_add(wrapped, comp)
                                     ELSE Ok(wrapped, 0)
         IN  IF res.tag # "Ok" THEN res
             ELSE Ok(res.num % self.prime, self.prime)

U64_double(self) == U64_add(self, self)

U64_neg(self) ==
    IF self.tag # "Ok" THEN self
    ELSE LET d == U64_checked_sub(self.prime, self.num)
         IN  IF d.tag # "Ok" THEN d ELSE Ok(d.num, self.prime)

U64_sub(self, other) ==
    IF self.tag # "Ok" THEN self
    ELSE IF other.tag # "Ok" THEN other
    ELSE IF ~U64_is_same_field(self.prime, other.prime) THEN DifferentFields
    ELSE U64_add(self, U64_neg(other))

\* One iteration of the while loop of mul; s = [res, base, other].
U64_mul_step(s) ==
    [res   |-> IF s.other % 2 = 1 THEN U64_add(s.res, s.base) ELSE s.res,
     base  |-> U64_double(s.base),
     other |-> s.other \div 2]

\* `?` inside the loop returns the Err at once.
RECURSIVE U64_mul_loop(_)
U64_mul_loop(s) ==
    IF s.res.tag # "Ok" THEN s.res
    ELSE IF s.base.tag # "Ok" THEN s.base
    ELSE IF s.other = 0 THEN s.res
    ELSE U64_mul_loop(U64_mul_step(s))

U64_mul(self, other) ==
    IF self.tag # "Ok" THEN self
    ELSE IF other.tag # "Ok" THEN other
    ELSE IF ~U64_is_same_field(self.prime, other.prime) THEN DifferentFields
    ELSE IF other.num = 0 THEN Ok(0, self.prime)
    ELSE U64_mul_loop([res   |-> Ok(0, self.prime),
                       base  |-> self,
                       other |-> other.num])

U64_sq(self) == U64_mul(self, self)

\* One iteration of the while loop of exp; s = [res, base, exp].
U64_exp_step(s) ==
    [res  |-> IF s.exp % 2 = 1 THEN U64_mul(s.res, s.base) ELSE s.res,
     base |-> U64_sq(s.base),
     exp  |-> s.exp \div 2]

RECURSIVE U64_exp_loop(_)
U64_exp_loop(s) ==
    IF s.res.tag # "Ok" THEN s.res
    ELSE IF s.base.tag # "Ok" THEN s.base
    ELSE IF s.exp = 0 THEN s.res
    ELSE U64_exp_loop(U64_exp_step(s))

U64_exp(self, exp) ==
    IF self.tag # "Ok" THEN self
    ELSE LET d == U64_checked_sub(self.prime, 1)
         IN  IF d.tag # "Ok" THEN d
             ELSE IF d.num = 0 THEN Panic
             ELSE LET e == exp % d.num
                  IN  IF e = 0
                      THEN Ok(0, self.prime)
                      ELSE U64_exp_loop([res  |-> Ok(1, self.prime),
                                         base |-> self,
                                         exp  |-> e])

U64_mul_inv(self) ==
    IF self.tag # "Ok" THEN self
    ELSE LET d == U64_checked_sub(self.prime, 2)
         IN  IF d.tag # "Ok" THEN d ELSE U64_exp(self, d.num)

U64_div(self, other) == U64_mul(self, U64_mul_inv(other))

\* The elements the constructor of the single-width engine returns.
U64Elems ==
    {r \in {U64_new(v, q) : v \in Word, q \in Word} : r.tag = "Ok"}

(***************************************************************************)
(* lib.rs: FieldElement, the 64-bit engine that widens to u128.            *)
(***************************************************************************)
FE_new(num, prime) ==
    IF ~miller_rabin(prime) THEN NotPrime
    ELSE Ok(IF num >= prime THEN ((num % Pow2(2 * WIDTH)) % prime) % Pow2(WIDTH)
                            ELSE num,
            prime)

\* TRUE for Ok(()), FALSE for Err(Error::DifferentFields).
FE_prime_check(p_1, p_2) == ~(p_1 # p_2)

FE_add(self, other) ==
    IF self.tag # "Ok" THEN self
    ELSE IF other.tag # "Ok" THEN other
    ELSE IF ~FE_prime_check(self.prime, other.prime) THEN DifferentFields
    ELSE LET res == (((self.num + other.num) % Pow2(2 * WIDTH)) % self.prime)
                        % Pow2(WIDTH)
         IN  FE_new(res, self.prime)

FE_sub(self, other) ==
    IF self.tag # "Ok" THEN self
    ELSE IF other.tag # "Ok" THEN other
    ELSE IF ~FE_prime_check(self.prime, other.prime) THEN DifferentFields
    ELSE LET wide == (self.num + self.prime) - other.num
         IN  IF wide < 0 /\ overflow_checks THEN Panic
             ELSE FE_new(((wide % Pow2(2 * WIDTH)) % self.prime) % Pow2(WIDTH),
                         self.prime)

FE_mul(self, other) ==
    IF self.tag # "Ok" THEN self
    ELSE IF other.tag # "Ok" THEN other
    ELSE IF ~FE_prime_check(self.prime, other.prime) THEN DifferentFields
    ELSE LET res == (((self.num * other.num) % Pow2(2 * WIDTH)) % self.prime)
                        % Pow2(WIDTH)
         IN  FE_new(res, self.prime)

FE_sq(self) == FE_mul(self, self)

\* One iteration of the while loop of exp; s = [res, base, exp].
FE_exp_step(s) ==
    [res  |-> IF s.exp % 2 = 1 THEN FE_mul(s.res, s.base) ELSE s.res,
     base |-> FE_sq(s.base),
     exp  |-> s.exp \div 2]

RECURSIVE FE_exp_loop(_)
FE_exp_loop(s) ==
    IF s.res.tag # "Ok" THEN s.res
    ELSE IF s.base.tag # "Ok" THEN s.base
    ELSE IF s.exp = 0 THEN s.res
    ELSE FE_exp_loop(FE_exp_step(s))

FE_exp(self, exp) ==
    IF self.tag # "Ok" THEN self
    ELSE LET d == U64_checked_sub(self.prime, 1)
         IN  IF d.tag # "Ok" THEN d
             ELSE IF d.num = 0 THEN Panic
             ELSE LET e == exp % d.num
                  IN  IF e = 0
                      THEN Ok(0, self.prime)
                      ELSE FE_exp_loop([res  |-> Ok(1, self.prime),
                                        base |-> self,
                                        exp  |-> e])

FE_inv(self) ==
    IF self.tag # "Ok" THEN self
    ELSE LET d == U64_checked_sub(self.prime, 2)
         IN  IF d.tag # "Ok" THEN d ELSE FE_exp(self, d.num)

FE_div(self, other) == FE_mul(self, FE_inv(other))

\* The elements the constructor of the widening engine returns.
FEElems ==
    {r \in {FE_new(v, q) : v \in Word, q \in Word} : r.tag = "Ok"}

(***************************************************************************)
(* point_u256.rs, secp256k1.rs: points and the group law of the curve      *)
(* y^2 = x^3 + 7.  The curve calls the field methods sub, sq, mul and div   *)
(* of the 256-bit engine and unwraps their results, so a failure of a      *)
(* field operation aborts the call.  The domain prime is scaled to 13: as  *)
(* over the real prime the group has prime order (7) and no point has      *)
(* x = 0 or y = 0.                                                         *)
(***************************************************************************)

\* Secp256k1::p(), scaled.
Secp256k1_p == 13

\* A point is a pair of elements; an aborted call leaves Panic instead.
U256ECPoint(x, y) ==
    IF x.tag # "Ok" THEN Panic
    ELSE IF y.tag # "Ok" THEN Panic
    ELSE [tag |-> "Point", x |-> x, y |-> y]

U256ECPoint_from_str(x, y, prime) ==
    U256ECPoint(U256_new(x, prime), U256_new(y, prime))

U256ECPoint_zero_zero(p) == U256ECPoint(U256_new(0, p), U256_new(0, p))

U256ECPoint_is_identity(self) == self.x.num = 0 /\ self.y.num = 0

Secp256k1_identity == U256ECPoint_zero_zero(Secp256k1_p)

Secp256k1_calc_slope_chord(p, q) ==
    LET dx == U256_sub(p.x, q.x)
        dy == U256_sub(p.y, q.y)
    IN  U256_div(dy, dx)

\* Secp256k1_calc_slope_tang with the numerator 2 * x^2.
Secp256k1_calc_slope_tang_two(p) ==
    U256_div(U256_mul(U256_sq(p.x), U256_new(2, p.x.prime)),
             U256_mul(p.y, U256_new(2, p.x.prime)))

Secp256k1_calc_slope_tang(p) ==
    U256_div(U256_mul(U256_sq(p.x), U256_new(3, p.x.prime)),
             U256_mul(p.y, U256_new(2, p.x.prime)))

Secp256k1_calc_x_of_addition(slope, x1, x2) ==
    U256_sub(U256_sub(U256_sq(slope), x1), x2)

Secp256k1_calc_y_of_addition(slope, x3, x1, y1) ==
    U256_sub(U256_mul(U256_sub(x1, x3), slope), y1)

\* Secp256k1_add_by_slope taking the x of q for the y of the sum.
Secp256k1_add_by_slope_mixed(slope, p, q) ==
    LET x3 == Secp256k1_calc_x_of_addition(slope, p.x, q.x)
        y3 == Secp256k1_calc_y_of_addition(slope, x3, q.x, p.y)
    IN  U256ECPoint(x3, y3)

Secp256k1_add_by_slope(slope, p, q) ==
    LET x3 == Secp256k1_calc_x_of_addition(slope, p.x, q.x)
        y3 == Secp256k1_calc_y_of_addition(slope, x3, p.x, p.y)
    IN  U256ECPoint(x3, y3)

Secp256k1_double(p) ==
    IF p.tag # "Point" THEN p
    ELSE IF p.y.num = 0 THEN Secp256k1_identity
    ELSE Secp256k1_add_by_slope(Secp256k1_calc_slope_tang(p), p, p)

\* Secp256k1_add taking every pair with equal x for a vertical line.
Secp256k1_add_vertical_only(p, q) ==
    IF p.tag # "Point" THEN p
    ELSE IF q.tag # "Point" THEN q
    ELSE IF p.x = q.x THEN Secp256k1_identity
    ELSE IF U256ECPoint_is_identity(p) THEN q
    ELSE IF U256ECPoint_is_identity(q) THEN p
    ELSE Secp256k1_add_by_slope(Secp256k1_calc_slope_chord(p, q), p, q)

Secp256k1_add(p, q) ==
    IF p.tag # "Point" THEN p
    ELSE IF q.tag # "Point" THEN q
    ELSE IF p.x = q.x
         THEN (IF p.y = q.y THEN Secp256k1_double(p) ELSE Secp256k1_identity)
    ELSE IF U256ECPoint_is_identity(p) THEN q
    ELSE IF U256ECPoint_is_identity(q) THEN p
    ELSE Secp256k1_add_by_slope(Secp256k1_calc_slope_chord(p, q), p, q)

\* Secp256k1_exp_step adding base for the clear bits instead of the set bits.
Secp256k1_exp_step_inverted(s) ==
    [res  |-> IF s.exp % 2 = 0 THEN Secp256k1_add(s.res, s.base) ELSE s.res,
     base |-> Secp256k1_double(s.base),
     exp  |-> s.exp \div 2]

\* One iteration of the while loop of exp; s = [res, base, exp].
Secp256k1_exp_step(s) ==
    [res  |-> IF s.exp % 2 = 1 THEN Secp256k1_add(s.res, s.base) ELSE s.res,
     base |-> Secp256k1_double(s.base),
     exp  |-> s.exp \div 2]

RECURSIVE Secp256k1_exp_loop(_)
Secp256k1_exp_loop(s) ==
    IF s.exp = 0 THEN s.res ELSE Secp256k1_exp_loop(Secp256k1_exp_step(s))

\* The locals of exp on entry to its loop.
Secp256k1_exp_entry(p, exp) ==
    [res |-> Secp256k1_identity, base |-> p, exp |-> exp]

\* Secp256k1_exp testing the scalar for zero before the field of the point.
Secp256k1_exp_zero_first(p, exp) ==
    IF p.tag # "Point" THEN p
    ELSE IF exp = 0 THEN p
    ELSE IF p.x.prime # Secp256k1_p THEN Panic
    ELSE Secp256k1_exp_loop([res  |-> Secp256k1_identity,
                             base |-> p,
                             exp  |-> exp])

Secp256k1_exp(p, exp) ==
    IF p.tag # "Point" THEN p
    ELSE IF p.x.prime # Secp256k1_p THEN Panic
    ELSE IF exp = 0 THEN p
    ELSE Secp256k1_exp_loop([res  |-> Secp256k1_identity,
                             base |-> p,
                             exp  |-> exp])

\* The points from_str returns over the modulus q: every coordinate pair.
PointsOver(q) ==
    {U256ECPoint_from_str(x, y, q) : x \in 0 .. (q - 1), y \in 0 .. (q - 1)}

\* The points over the field of the curve.
CurvePoints == PointsOver(Secp256k1_p)

(***************************************************************************)
(* rsa/src/lib.rs: PublicKey and PrivateKey over big integers.  The bytes  *)
(* of a message are scaled to ByteBits bits, the modulus to at most        *)
(* MaxModulusBits bits; the public exponent keeps its value.  BigUint and  *)
(* BigInt do not overflow.                                                 *)
(***************************************************************************)

\* Bits of a byte, scaled.
ByteBits == 2

Byte == 0 .. (Pow2(ByteBits) - 1)

\* The largest modulus_bit_size given to PrivateKey::new.
MaxModulusBits == 10

\* The longest message given to encrypt.
MaxMsgLen == 3

\* The sizes given to PrivateKey::new: gen_prime needs at least 2 bits.
ModulusBitSizes == 4 .. MaxModulusBits

MAX_SIZE_MODULUS == 4096

\* BigUint::from_u64(65537), the public exponent e.
RSA_e == 65537

\* BigUint::bits: the length of n in bits, 0 for 0.
RECURSIVE BigUint_bits(_)
BigUint_bits(n) == IF n = 0 THEN 0 ELSE 1 + BigUint_bits(n \div 2)

\* BigUint::from_bytes_be: the big-endian bytes as a number; leading zero
\* bytes and the empty sequence give no digit.
RECURSIVE BigUint_from_bytes_be(_)
BigUint_from_bytes_be(bytes) ==
    IF bytes = <<>> THEN 0
    ELSE BigUint_from_bytes_be(SubSeq(bytes, 1, Len(bytes) - 1)) * Pow2(ByteBits)
             + bytes[Len(bytes)]

\* BigUint::to_bytes_be: the shortest big-endian bytes of v, <<0>> for 0.
RECURSIVE BigUint_to_bytes_be(_)
BigUint_to_bytes_be(v) ==
    IF v < Pow2(ByteBits) THEN <<v>>
    ELSE Append(BigUint_to_bytes_be(v \div Pow2(ByteBits)), v % Pow2(ByteBits))

\* BigUint::modpow: base^exp mod modulus.
RECURSIVE BigUint_modpow(_, _, _)
BigUint_modpow(base, exp, modulus) ==
    IF exp = 0 THEN 1 % modulus
    ELSE LET half == BigUint_modpow(base, exp \div 2, modulus)
             sq   == (half * half) % modulus
         IN  IF exp % 2 = 1 THEN (sq * (base % modulus)) % modulus ELSE sq

\* ModInverse::mod_inverse: the Option with the x in [0, modulus) such that
\* g * x = 1 (mod modulus); None is the empty set.
mod_inverse(g, modulus) ==
    {x \in 0 .. (modulus - 1) : ((g % modulus) * x) % modulus = 1 % modulus}

\* The value of a Some.
unwrap(option) == CHOOSE x \in option : TRUE

\* RandPrime::gen_prime: a prime of bit_size bits.
gen_prime(bit_size) ==
    {x \in Pow2(bit_size - 1) .. (Pow2(bit_size) - 1) :
        \A d \in 2 .. (x - 1) : x % d # 0}

\* A returned Vec<u8>.
Bytes(bytes) == [tag |-> "Bytes", bytes |-> bytes]

NoKey == [tag |-> "None"]

PublicKey_new(n) ==
    IF BigUint_bits(n) > MAX_SIZE_MODULUS THEN Err("ModulusTooLarge")
    ELSE IF n % 2 = 0 THEN Err("EvenModulus")
    ELSE [tag |-> "PublicKey", n |-> n]

\* Bytes of the modulus: (bits + 7) / 8 for bytes of 8 bits.
PublicKey_size_bytes(self) ==
    (BigUint_bits(self.n) + (ByteBits - 1)) \div ByteBits

PublicKey_encrypt(self, bytes) ==
    IF Len(bytes) + 2 > PublicKey_size_bytes(self)
    THEN Err("MessageTooLong")
    ELSE Bytes(BigUint_to_bytes_be(
                   BigUint_modpow(BigUint_from_bytes_be(bytes), RSA_e, self.n)))

\* The components the loop of generate_private_key_components can leave
\* with: the primes differ and e is invertible modulo the totient.
PrivateKey_generate_private_key_components(modulus_bit_size) ==
    LET prime_bits == modulus_bit_size \div 2
        totient(p, q) == (p - 1) * (q - 1)
    IN  {[n |-> pq[1] * pq[2],
          d |-> unwrap(mod_inverse(RSA_e, totient(pq[1], pq[2]))),
          p |-> pq[1],
          q |-> pq[2]] :
            pq \in {pq \in gen_prime(prime_bits) \X gen_prime(prime_bits) :
                       /\ pq[1] # pq[2]
                       /\ mod_inverse(RSA_e, totient(pq[1], pq[2])) # {}}}

\* PrivateKey::new after the components are generated.
PrivateKey_new(comps) ==
    LET d_mod_p_minus_one     == comps.d % (comps.p - 1)
        d_mod_q_minus_one     == comps.d % (comps.q - 1)
        q_inv_mod_p_minus_one == mod_inverse(comps.p, comps.q)
        public_key            == PublicKey_new(comps.n)
    IN  IF q_inv_mod_p_minus_one = {} THEN Err("InvalidPrime")
        ELSE IF public_key.tag # "PublicKey" THEN public_key
        ELSE [tag |-> "PrivateKey",
              public_key |-> public_key,
              p |-> comps.p,
              q |-> comps.q,
              d_mod_p_minus_one |-> d_mod_p_minus_one,
              d_mod_q_minus_one |-> d_mod_q_minus_one,
              q_inv_mod_p_minus_one |-> unwrap(q_inv_mod_p_minus_one)]

PrivateKey_get_public_key(self) == PublicKey_new(self.public_key.n)

\* The while loop of decrypt: m1 += p while m1 is negative.
RECURSIVE PrivateKey_decrypt_loop(_, _)
PrivateKey_decrypt_loop(m1, p) ==
    IF m1 < 0 THEN PrivateKey_decrypt_loop(m1 + p, p) ELSE m1

PrivateKey_decrypt(self, bytes) ==
    LET c  == BigUint_from_bytes_be(bytes)
        n  == self.public_key.n
        m1 == BigUint_modpow(c, self.d_mod_p_minus_one, self.p)
        m2 == BigUint_modpow(c, self.d_mod_q_minus_one, self.q)
        h  == (PrivateKey_decrypt_loop(m1 - m2, self.p)
                   * self.q_inv_mod_p_minus_one) % self.p
    IN  IF c >= n \/ n = 0 THEN Err("Decryption")
        ELSE Bytes(BigUint_to_bytes_be(h * self.q + m2))

(***************************************************************************)
(* The caller: it draws operands the constructors return and calls one     *)
(* operation.                                                              *)
(***************************************************************************)
NoLoop == [res |-> NoElem, base |-> NoElem, rhs |-> 0]

Init ==
    /\ overflow_checks \in BOOLEAN
    /\ pc = "idle"
    /\ op = "none"
    /\ a = NoElem
    /\ b = NoElem
    /\ k = 0
    /\ m = 0
    /\ out = NoElem
    /\ st = NoLoop
    /\ iters = 0
    /\ key = NoKey
    /\ msg = <<>>
    /\ cipher = <<>>

\* A call that runs to its end in one step.
Return(name, self, rhs, int, modulus, result) ==
    /\ pc' = "done"
    /\ op' = name
    /\ a' = self
    /\ b' = rhs
    /\ k' = int
    /\ m' = modulus
    /\ out' = result
    /\ UNCHANGED <<overflow_checks, st, iters, key, msg, cipher>>

U256New ==
    /\ pc = "idle"
    /\ \E v \in Word, q \in Word :
        Return("U256_new", NoElem, NoElem, v, q, U256_new(v, q))

U256Add ==
    /\ pc = "idle"
    /\ \E x \in U256Elems, y \in U256Elems :
        Return("U256_add", x, y, 0, 0, U256_add(x, y))

U256Sub ==
    /\ pc = "idle"
    /\ \E x \in U256Elems, y \in U256Elems :
        Return("U256_sub", x, y, 0, 0, U256_sub(x, y))

U256Neg ==
    /\ pc = "idle"
    /\ \E x \in U256Elems :
        Return("U256_neg", x, NoElem, 0, 0, U256_neg(x))

\* mul up to the entry of its loop: the field check and the early return.
U256MulCall ==
    /\ pc = "idle"
    /\ \E x \in U256Elems, y \in U256Elems :
        /\ op' = "U256_mul"
        /\ a' = x
        /\ b' = y
        /\ UNCHANGED <<overflow_checks, k, m, key, msg, cipher>>
        /\ iters' = 0
        /\ IF ~U256_is_same_field(x.prime, y.prime)
           THEN pc' = "done" /\ out' = Panic /\ st' = NoLoop
           ELSE IF y.num = 0
           THEN pc' = "done" /\ out' = Ok(0, x.prime) /\ st' = NoLoop
           ELSE pc' = "mul_loop" /\ out' = NoElem
                /\ st' = U256_mul_entry(x, y)

\* One iteration of the loop of mul.
U256MulIterate ==
    /\ pc = "mul_loop"
    /\ st.rhs # 0
    /\ st' = U256_mul_step(st)
    /\ iters' = iters + 1
    /\ UNCHANGED <<overflow_checks, pc, op, a, b, k, m, out, key, msg, cipher>>

\* The loop condition fails: mul returns res.
U256MulReturn ==
    /\ pc = "mul_loop"
    /\ st.rhs = 0
    /\ pc' = "done"
    /\ out' = st.res
    /\ UNCHANGED <<overflow_checks, op, a, b, k, m, st, iters, key, msg, cipher>>

U256Div ==
    /\ pc = "idle"
    /\ \E x \in U256Elems, y \in U256Elems :
        Return("U256_div", x, y, 0, 0, U256_div(x, y))

U256Inv ==
    /\ pc = "idle"
    /\ \E x \in U256Elems :
        Return("U256_inv", x, NoElem, 0, 0, U256_inv(x))

U256Exp ==
    /\ pc = "idle"
    /\ \E x \in U256Elems, e \in Word :
        Return("U256_exp", x, NoElem, e, 0, U256_exp(x, e))

U64New ==
    /\ pc = "idle"
    /\ \E v \in Word, q \in Word :
        Return("U64_new", NoElem, NoElem, v, q, U64_new(v, q))

U64Add ==
    /\ pc = "idle"
    /\ \E x \in U64Elems, y \in U64Elems :
        Return("U64_add", x, y, 0, 0, U64_add(x, y))

U64Sub ==
    /\ pc = "idle"
    /\ \E x \in U64Elems, y \in U64Elems :
        Return("U64_sub", x, y, 0, 0, U64_sub(x, y))

U64Mul ==
    /\ pc = "idle"
    /\ \E x \in U64Elems, y \in U64Elems :
        Return("U64_mul", x, y, 0, 0, U64_mul(x, y))

U64Div ==
    /\ pc = "idle"
    /\ \E x \in U64Elems, y \in U64Elems :
        Return("U64_div", x, y, 0, 0, U64_div(x, y))

U64Neg ==
    /\ pc = "idle"
    /\ \E x \in U64Elems :
        Return("U64_neg", x, NoElem, 0, 0, U64_neg(x))

U64MulInv ==
    /\ pc = "idle"
    /\ \E x \in U64Elems :
        Return("U64_mul_inv", x, NoElem, 0, 0, U64_mul_inv(x))

U64Exp ==
    /\ pc = "idle"
    /\ \E x \in U64Elems, e \in Word :
        Return("U64_exp", x, NoElem, e, 0, U64_exp(x, e))

FENew ==
    /\ pc = "idle"
    /\ \E v \in Word, q \in Word :
        Return("FE_new", NoElem, NoElem, v, q, FE_new(v, q))

FEAdd ==
    /\ pc = "idle"
    /\ \E x \in FEElems, y \in FEElems :
        Return("FE_add", x, y, 0, 0, FE_add(x, y))

FESub ==
    /\ pc = "idle"
    /\ \E x \in FEElems, y \in FEElems :
        Return("FE_sub", x, y, 0, 0, FE_sub(x, y))

FEMul ==
    /\ pc = "idle"
    /\ \E x \in FEElems, y \in FEElems :
        Return("FE_mul", x, y, 0, 0, FE_mul(x, y))

FEDiv ==
    /\ pc = "idle"
    /\ \E x \in FEElems, y \in FEElems :
        Return("FE_div", x, y, 0, 0, FE_div(x, y))

FEInv ==
    /\ pc = "idle"
    /\ \E x \in FEElems :
        Return("FE_inv", x, NoElem, 0, 0, FE_inv(x))

FEExp ==
    /\ pc = "idle"
    /\ \E x \in FEElems, e \in Word :
        Return("FE_exp", x, NoElem, e, 0, FE_exp(x, e))

U256Zero ==
    /\ pc = "idle"
    /\ \E q \in Moduli :
        Return("U256_zero", NoElem, NoElem, 0, q, U256_zero(q))

U256One ==
    /\ pc = "idle"
    /\ \E q \in Moduli :
        Return("U256_one", NoElem, NoElem, 0, q, U256_one(q))

U256Double ==
    /\ pc = "idle"
    /\ \E x \in U256Elems :
        Return("U256_double", x, NoElem, 0, 0, U256_double(x))

U256Sq ==
    /\ pc = "idle"
    /\ \E x \in U256Elems :
        Return("U256_sq", x, NoElem, 0, 0, U256_sq(x))

U64Double ==
    /\ pc = "idle"
    /\ \E x \in U64Elems :
        Return("U64_double", x, NoElem, 0, 0, U64_double(x))

U64Sq ==
    /\ pc = "idle"
    /\ \E x \in U64Elems :
        Return("U64_sq", x, NoElem, 0, 0, U64_sq(x))

FESq ==
    /\ pc = "idle"
    /\ \E x \in FEElems :
        Return("FE_sq", x, NoElem, 0, 0, FE_sq(x))

\* The primality tester called on its own, on an arbitrary-precision n.
MillerRabin ==
    /\ pc = "idle"
    /\ \E n \in 0 .. MaxTested :
        Return("miller_rabin", NoElem, NoElem, n, 0, Bool(miller_rabin(n)))

ECAdd ==
    /\ pc = "idle"
    /\ \E x \in CurvePoints, y \in CurvePoints :
        Return("Secp256k1_add", x, y, 0, 0, Secp256k1_add(x, y))

ECDouble ==
    /\ pc = "idle"
    /\ \E x \in CurvePoints :
        Return("Secp256k1_double", x, NoElem, 0, 0, Secp256k1_double(x))

\* exp is also called with points over the other moduli.
ECExp ==
    /\ pc = "idle"
    /\ \E q \in Moduli :
        \E x \in PointsOver(q), e \in Word :
            Return("Secp256k1_exp", x, NoElem, e, 0, Secp256k1_exp(x, e))

\* PrivateKey::new(modulus_bit_size), as main calls it.
PrivateKeyNew ==
    /\ pc = "idle"
    /\ \E modulus_bit_size \in ModulusBitSizes :
       \E comps \in PrivateKey_generate_private_key_components(modulus_bit_size) :
            LET result == PrivateKey_new(comps)
            IN  /\ op' = "PrivateKey_new"
                /\ k' = modulus_bit_size
                /\ IF result.tag = "PrivateKey"
                   THEN pc' = "keyed" /\ key' = result /\ out' = NoElem
                   ELSE pc' = "done" /\ key' = NoKey /\ out' = result
                /\ UNCHANGED <<overflow_checks, a, b, m, st, iters, msg, cipher>>

\* private_key.get_public_key() and public_key.encrypt(msg).
PublicKeyEncrypt ==
    /\ pc = "keyed"
    /\ \E len \in 0 .. MaxMsgLen :
       \E bytes \in [1 .. len -> Byte] :
            LET public_key == PrivateKey_get_public_key(key)
                result     == PublicKey_encrypt(public_key, bytes)
            IN  /\ op' = "PublicKey_encrypt"
                /\ msg' = bytes
                /\ IF result.tag = "Bytes"
                   THEN pc' = "encrypted" /\ cipher' = result.bytes
                        /\ out' = NoElem
                   ELSE pc' = "done" /\ cipher' = <<>> /\ out' = result
                /\ UNCHANGED <<overflow_checks, a, b, k, m, st, iters, key>>

\* private_key.decrypt(&c) of the ciphertext encrypt returned.
PrivateKeyDecrypt ==
    /\ pc = "encrypted"
    /\ op' = "PrivateKey_decrypt"
    /\ pc' = "done"
    /\ out' = PrivateKey_decrypt(key, cipher)
    /\ UNCHANGED <<overflow_checks, a, b, k, m, st, iters, key, msg, cipher>>

Next ==
    \/ U256New
    \/ U256Add
    \/ U256Sub
    \/ U256Neg
    \/ U256MulCall
    \/ U256MulIterate
    \/ U256MulReturn
    \/ U256Div
    \/ U256Inv
    \/ U256Exp
    \/ U64New
    \/ U64Add
    \/ U64Sub
    \/ U64Mul
    \/ U64Div
    \/ U64Neg
    \/ U64MulInv
    \/ U64Exp
    \/ FENew
    \/ FEAdd
    \/ FESub
    \/ FEMul
    \/ FEDiv
    \/ FEInv
    \/ FEExp
    \/ U256Zero
    \/ U256One
    \/ U256Double
    \/ U256Sq
    \/ U64Double
    \/ U64Sq
    \/ FESq
    \/ MillerRabin
    \/ ECAdd
    \/ ECDouble
    \/ ECExp
    \/ PrivateKeyNew
    \/ PublicKeyEncrypt
    \/ PrivateKeyDecrypt

Spec == Init /\ [][Next]_vars

(***************************************************************************)
(* The bit loops run one iteration at a time: the 256-bit mul (above), the *)
(* 256-bit exp and the curve exp.  The code is sequential, so a call that  *)
(* can take its next step takes it.                                        *)
(***************************************************************************)
U256ExpCall ==
    /\ pc = "idle"
    /\ \E x \in U256Elems, e \in Word :
        LET reduced == e % (x.prime - 1)
        IN  /\ op' = "U256_exp"
            /\ a' = x
            /\ k' = e
            /\ iters' = 0
            /\ UNCHANGED <<overflow_checks, b, m, key, msg, cipher>>
            /\ IF reduced = 0
               THEN pc' = "done" /\ out' = Ok(0, x.prime) /\ st' = NoLoop
               ELSE pc' = "exp_loop" /\ out' = NoElem
                    /\ st' = U256_exp_entry(x, reduced)

\* One iteration of the loop of exp.
U256ExpIterate ==
    /\ pc = "exp_loop"
    /\ st.exp # 0
    /\ st' = U256_exp_step(st)
    /\ iters' = iters + 1
    /\ UNCHANGED <<overflow_checks, pc, op, a, b, k, m, out, key, msg, cipher>>

\* The loop condition fails: exp returns res.
U256ExpReturn ==
    /\ pc = "exp_loop"
    /\ st.exp = 0
    /\ pc' = "done"
    /\ out' = st.res
    /\ UNCHANGED <<overflow_checks, op, a, b, k, m, st, iters, key, msg, cipher>>

ECExpCall ==
    /\ pc = "idle"
    /\ \E x \in CurvePoints, e \in Word :
        /\ op' = "Secp256k1_exp"
        /\ a' = x
        /\ k' = e
        /\ iters' = 0
        /\ UNCHANGED <<overflow_checks, b, m, key, msg, cipher>>
        /\ IF x.x.prime # Secp256k1_p
           THEN pc' = "done" /\ out' = Panic /\ st' = NoLoop
           ELSE IF e = 0
           THEN pc' = "done" /\ out' = x /\ st' = NoLoop
           ELSE pc' = "ec_loop" /\ out' = NoElem
                /\ st' = Secp256k1_exp_entry(x, e)

\* One iteration of the loop of the curve exp.
ECExpIterate ==
    /\ pc = "ec_loop"
    /\ st.exp # 0
    /\ st' = Secp256k1_exp_step(st)
    /\ iters' = iters + 1
    /\ UNCHANGED <<overflow_checks, pc, op, a, b, k, m, out, key, msg, cipher>>

\* The loop condition fails: the curve exp returns res.
ECExpReturn ==
    /\ pc = "ec_loop"
    /\ st.exp = 0
    /\ pc' = "done"
    /\ out' = st.res
    /\ UNCHANGED <<overflow_checks, op, a, b, k, m, st, iters, key, msg, cipher>>

LoopNext ==
    \/ U256MulCall
    \/ U256MulIterate
    \/ U256MulReturn
    \/ U256ExpCall
    \/ U256ExpIterate
    \/ U256ExpReturn
    \/ ECExpCall
    \/ ECExpIterate
    \/ ECExpReturn

\* A step of the running loop of mul: an iteration, or the return.
U256MulStep == U256MulIterate \/ U256MulReturn

\* The fairness covers the loop of mul.  The loops of exp run mul in every
\* iteration; their progress is stated by the variant of the loop.
LoopSpec == Init /\ [][LoopNext]_vars /\ WF_vars(U256MulStep)

(***************************************************************************)
(* Properties.                                                             *)
(***************************************************************************)

\* The call has returned (or aborted) and it was a call of `name`.
Called(name) == pc = "done" /\ op = name

\* Both operands are elements of one field.
SameField == a.tag = "Ok" /\ b.tag = "Ok" /\ a.prime = b.prime

\* Both operands are elements, of different fields.
OtherField == a.tag = "Ok" /\ b.tag = "Ok" /\ a.prime # b.prime

\* n has a proper divisor.
HasDivisor(n) == \E d \in 2 .. (n - 1) : n % d = 0

\* x^n mod p as the n-fold product x * x * ... * x reduced at every step.
RECURSIVE RepeatedProduct(_, _, _)
RepeatedProduct(x, n, p) ==
    IF n = 0 THEN 1 % p ELSE (x * RepeatedProduct(x, n - 1, p)) % p

\* C1: U256FieldElement addition of two reduced elements of one field
\* returns the element (a + b) mod p with modulus p, also when the raw sum
\* exceeds the maximum of the width and wraps.
C1_U256AddIsSumModP ==
    (Called("U256_add") /\ SameField)
        => out = Ok((a.num + b.num) % a.prime, a.prime)

\* C1 witness: an addition whose raw sum wrapped returned the right residue.
C1_Witness ==
    /\ Called("U256_add")
    /\ SameField
    /\ a.num + b.num > MAX_VALUE
    /\ out = Ok((a.num + b.num) % a.prime, a.prime)

\* C2: U64FieldElement::add of two reduced elements of one field returns
\* the element (a + b) mod p, also when the native addition overflows.
C2_U64AddIsSumModP ==
    (Called("U64_add") /\ SameField)
        => out = Ok((a.num + b.num) % a.prime, a.prime)

\* C3: U256FieldElement multiplication returns (a * b) mod p; inside its
\* double-and-add loop res and base are always reduced residues of the
\* field (no addition aborted or left the width), and res + base * rhs is
\* congruent to a * b.
C3_U256MulLoopReducedAndCorrect ==
    /\ pc = "mul_loop"
        => /\ st.res.tag = "Ok"
           /\ st.base.tag = "Ok"
           /\ st.res.prime = a.prime
           /\ st.base.prime = a.prime
           /\ st.res.num < a.prime
           /\ st.base.num < a.prime
           /\ iters <= WIDTH
           /\ (st.res.num + st.base.num * st.rhs) % a.prime
                  = (a.num * b.num) % a.prime
    /\ (Called("U256_mul") /\ SameField)
        => out = Ok((a.num * b.num) % a.prime, a.prime)

\* C3 witness: a multiplication that ran the loop over every bit of the
\* width, with a first doubling that exceeded the width, returned a * b mod p.
C3_Witness ==
    /\ Called("U256_mul")
    /\ SameField
    /\ iters = WIDTH
    /\ 2 * a.num > MAX_VALUE
    /\ out = Ok((a.num * b.num) % a.prime, a.prime)

\* C4: subtraction in the 256-bit and in the single-width 64-bit engine
\* returns (a - b) mod p for reduced a, b of one field, b = 0 and the
\* overflow of a + (p - b) included.
C4_SubIsDifferenceModP ==
    ((Called("U256_sub") \/ Called("U64_sub")) /\ SameField)
        => out = Ok(((a.num + a.prime) - b.num) % a.prime, a.prime)

\* C5: new(value, modulus) of every engine returns Err(NotPrime) whenever
\* the modulus fails the primality test (every modulus below 2 and every
\* composite does); otherwise it returns the element with the given modulus
\* whose value is the residue of value modulo the modulus.
C5_NewRejectsOrReduces ==
    (Called("U256_new") \/ Called("U64_new") \/ Called("FE_new"))
        => /\ (~miller_rabin(m)) => out = NotPrime
           /\ (m < 2 \/ HasDivisor(m)) => out = NotPrime
           /\ miller_rabin(m)
                => /\ out.tag = "Ok"
                   /\ out.prime = m
                   /\ out.num < m
                   /\ \E t \in Word : k = t * m + out.num

\* C5 witness: an odd composite modulus was rejected with NotPrime.
C5_Witness ==
    /\ Called("FE_new")
    /\ m % 2 = 1
    /\ HasDivisor(m)
    /\ k >= m
    /\ out = NotPrime

\* The operations of the two u64 engines that check the field.
U64CheckedOps ==
    {"U64_add", "U64_sub", "U64_mul", "FE_add", "FE_sub", "FE_mul"}

\* C6: add, sub and mul of U64FieldElement and FieldElement return
\* Err(DifferentFields) when the moduli differ and an element with the
\* common modulus when they are equal.
C6_U64DifferentFields ==
    (pc = "done" /\ op \in U64CheckedOps)
        => /\ OtherField => out = DifferentFields
           /\ SameField => (out.tag = "Ok" /\ out.prime = a.prime)

\* C6 witness: a single-width mul of elements of two fields returned
\* DifferentFields.
C6_Witness ==
    /\ Called("U64_mul")
    /\ OtherField
    /\ a.num # 0
    /\ b.num # 0
    /\ out = DifferentFields

\* The binary operators of the 256-bit engine.
U256BinaryOps == {"U256_add", "U256_sub", "U256_mul", "U256_div"}

\* C7: +, -, * and / of U256FieldElement on operands of different fields
\* yield the recoverable error DifferentFields, never an abort.
C7_U256MismatchIsRecoverable ==
    (pc = "done" /\ op \in U256BinaryOps /\ OtherField)
        => out = DifferentFields

\* C8: in the 256-bit engine a * inv(a) = 1 for every element a # 0 of
\* every field the constructor accepts, and div(x, b) * b = x for b # 0.
C8_U256InverseLaw ==
    /\ (Called("U256_inv") /\ a.num # 0)
        => U256_mul(a, out) = Ok(1, a.prime)
    /\ (Called("U256_div") /\ SameField /\ b.num # 0)
        => U256_mul(out, b) = a

\* C9: a.exp(p - 1) = 1 for every element a # 0, in the 256-bit and the
\* single-width 64-bit engine.
C9_FermatExp ==
    ((Called("U256_exp") \/ Called("U64_exp")) /\ a.num # 0
        /\ k = a.prime - 1)
        => out = Ok(1, a.prime)

\* C10: a.exp(n) is the n-fold product of a in the field for every element
\* a and every exponent 1 <= n < p - 1, in the 256-bit and the single-width
\* 64-bit engine.
C10_ExpIsRepeatedProduct ==
    ((Called("U256_exp") \/ Called("U64_exp")) /\ 1 <= k /\ k < a.prime - 1)
        => out = Ok(RepeatedProduct(a.num, k, a.prime), a.prime)

\* The operations of the field engines that return an element.
FieldOps ==
    {"U256_new", "U256_zero", "U256_one", "U256_add", "U256_sub", "U256_mul",
     "U256_div", "U256_neg", "U256_double", "U256_sq", "U256_inv", "U256_exp",
     "U64_new", "U64_add", "U64_sub", "U64_mul", "U64_div", "U64_neg",
     "U64_double", "U64_sq", "U64_mul_inv", "U64_exp",
     "FE_new", "FE_add", "FE_sub", "FE_mul", "FE_div", "FE_sq", "FE_inv",
     "FE_exp"}

\* C11: every element a public operation of a field engine returns for
\* reduced inputs has 0 <= value < modulus; in particular the additive
\* inverse of the zero element is the zero element.
C11_ResultsAreReduced ==
    (pc = "done" /\ op \in FieldOps /\ out.tag = "Ok")
        => /\ 0 <= out.num
           /\ out.num < out.prime
           /\ (op \in {"U256_neg", "U64_neg"} /\ a.num = 0) => out.num = 0

\* n is a prime number, by trial division.
IsPrime(n) == n >= 2 /\ ~HasDivisor(n)

\* C12: miller_rabin(n) is true exactly when n is prime, for every n up to
\* MaxTested: false below 2, true for 2, 3 and 5, false for even n > 2, true
\* for every odd prime and false for every odd composite.
C12_MillerRabinDecidesPrimality ==
    Called("miller_rabin")
        => /\ out = Bool(IsPrime(k))
           /\ k < 2 => out = Bool(FALSE)
           /\ k \in {2, 3, 5} => out = Bool(TRUE)
           /\ (k > 2 /\ k % 2 = 0) => out = Bool(FALSE)

\* C12 witness: an odd composite that is a strong pseudoprime to the first
\* base (3) was rejected by a later witness.
C12_Witness ==
    /\ Called("miller_rabin")
    /\ k % 2 = 1
    /\ HasDivisor(k)
    /\ mr_witness_passes(1, k)
    /\ out = Bool(FALSE)

\* y^2 = x^3 + 7 in the field of the point.
OnCurve(pt) ==
    (pt.y.num * pt.y.num) % pt.x.prime
        = (pt.x.num * pt.x.num * pt.x.num + 7) % pt.x.prime

\* The operand a is a point over the field of the curve.
CurveOperand(pt) ==
    pt.tag = "Point" /\ pt.x.prime = Secp256k1_p /\ pt.y.prime = Secp256k1_p

\* A point of the group: a point on the curve, or the identity sentinel.
GroupPoint(pt) ==
    CurveOperand(pt) /\ (OnCurve(pt) \/ pt = Secp256k1_identity)

\* C13: add(P, identity) = P and add(identity, P) = P for every point P
\* over the field of the curve (any coordinate pair).
C13_IdentityLaw ==
    (Called("Secp256k1_add") /\ CurveOperand(a) /\ CurveOperand(b))
        => /\ b = Secp256k1_identity => out = a
           /\ a = Secp256k1_identity => out = b

\* C14: add(P, Q) = add(Q, P) for all points P, Q over the field of the
\* curve, the identity, equal points and points sharing x included.
C14_AddCommutes ==
    (Called("Secp256k1_add") /\ CurveOperand(a) /\ CurveOperand(b))
        => /\ out.tag = "Point"
           /\ out = Secp256k1_add(b, a)

\* C14 witness: the chord through two points of the curve with different x
\* gave a point of the curve, the same in both orders.
C14_Witness ==
    /\ Called("Secp256k1_add")
    /\ CurveOperand(a) /\ OnCurve(a)
    /\ CurveOperand(b) /\ OnCurve(b)
    /\ a.x # b.x
    /\ out.tag = "Point" /\ OnCurve(out)
    /\ out = Secp256k1_add(b, a)

\* C15: scalar_multiply(P, i + j) = add(scalar_multiply(P, i),
\* scalar_multiply(P, j)) for every point P of the group and all scalars
\* i, j >= 0 whose sum is inside the scalar width.
C15_ScalarMultiplyAdditive ==
    (Called("Secp256k1_exp") /\ GroupPoint(a))
        => \A i \in 0 .. k :
              out = Secp256k1_add(Secp256k1_exp(a, i), Secp256k1_exp(a, k - i))

\* P added to itself: the sum of n copies of P, built with add.
RECURSIVE RepeatedAdd(_, _)
RepeatedAdd(pt, n) ==
    IF n = 1 THEN pt ELSE Secp256k1_add(RepeatedAdd(pt, n - 1), pt)

\* C16: scalar_multiply(P, k) is the sum of k copies of P for every point P
\* of the group and every scalar k >= 1; scalar_multiply(P, 2) = double(P).
C16_ScalarMultiplyIsRepeatedAdd ==
    (Called("Secp256k1_exp") /\ GroupPoint(a) /\ k >= 1)
        => /\ out = RepeatedAdd(a, k)
           /\ k = 2 => out = Secp256k1_double(a)

\* C16 witness: a point of the curve multiplied by a scalar above the order
\* of the group, with several set bits, gave the repeated sum.
C16_Witness ==
    /\ Called("Secp256k1_exp")
    /\ CurveOperand(a) /\ OnCurve(a)
    /\ k = 11
    /\ out.tag = "Point" /\ OnCurve(out)
    /\ out = RepeatedAdd(a, k)

\* C17: scalar_multiply(P, k) of a point whose field is not the field of
\* the curve returns no point for any scalar k, k = 0 included: the call
\* aborts.
C17_CurveMismatchAborts ==
    (Called("Secp256k1_exp") /\ a.tag = "Point" /\ a.x.prime # Secp256k1_p)
        => out = Panic

\* C17 witness: scalar 0 and a point over another field: the call aborted.
C17_Witness ==
    /\ Called("Secp256k1_exp")
    /\ a.tag = "Point"
    /\ a.x.prime # Secp256k1_p
    /\ k = 0
    /\ out = Panic

\* C18: decrypt(encrypt(message)) returns the message, for every key
\* PrivateKey::new returns and every message encrypt accepts.
C18_RsaRoundTrip ==
    Called("PrivateKey_decrypt") => out = Bytes(msg)

\* The exponentiations of the three field engines.
ExpOps == {"U256_exp", "U64_exp", "FE_exp"}

\* C19: exp(a, e) is the zero element over the modulus of a for every element
\* a, zero or not, and every exponent e with e mod (modulus - 1) = 0, e = 0
\* included, in the three engines.
C19_ZeroReducedExponentGivesZero ==
    (pc = "done" /\ op \in ExpOps /\ a.tag = "Ok" /\ k % (a.prime - 1) = 0)
        => out = Ok(0, a.prime)

\* C19 witness: an element above 1 raised to a non-zero multiple of
\* modulus - 1 gave the zero element.
C19_Witness ==
    /\ pc = "done"
    /\ op \in ExpOps
    /\ a.tag = "Ok" /\ a.num > 1
    /\ k > 0 /\ k % (a.prime - 1) = 0
    /\ out = Ok(0, a.prime)

\* C20: scalar_multiply(P, 0) is the identity for every point P of the
\* group.
C20_ScalarZeroIsIdentity ==
    (Called("Secp256k1_exp") /\ GroupPoint(a) /\ k = 0)
        => out = Secp256k1_identity

\* The point (x, -y) of a point (x, y) with reduced coordinates.
InversePoint(pt) ==
    [pt EXCEPT !.y = Ok((pt.y.prime - pt.y.num) % pt.y.prime, pt.y.prime)]

\* C21: add(P, Q) with P.x = Q.x is the identity when P.y # Q.y, and
\* double(P) when P.y = Q.y, which is the identity when P.y = 0; so
\* add(P, (x, -y)) is the identity for every coordinate pair P = (x, y).
C21_InversePointsSumToIdentity ==
    (Called("Secp256k1_add") /\ CurveOperand(a) /\ CurveOperand(b)
        /\ a.x = b.x)
        => /\ a.y # b.y => out = Secp256k1_identity
           /\ a.y = b.y => out = Secp256k1_double(a)
           /\ (a.y = b.y /\ a.y.num = 0) => out = Secp256k1_identity
           /\ b = InversePoint(a) => out = Secp256k1_identity

\* C21 witness: a point of the curve added to its inverse gave the
\* identity.
C21_Witness ==
    /\ Called("Secp256k1_add")
    /\ CurveOperand(a) /\ OnCurve(a)
    /\ b = InversePoint(a)
    /\ b # a
    /\ out = Secp256k1_identity

\* The operations of the group law.
GroupOps == {"Secp256k1_add", "Secp256k1_double", "Secp256k1_exp"}

\* The operands of the call are points of the group.
GroupOperands ==
    /\ GroupPoint(a)
    /\ op = "Secp256k1_add" => GroupPoint(b)

\* C22: add, double and scalar_multiply of points of the group (on
\* y^2 = x^3 + 7, or the identity sentinel) return a point of the group; the
\* slope of the chord times (P.x - Q.x) is P.y - Q.y, and the slope of the
\* tangent times 2y is 3x^2.
C22_GroupLawIsClosed ==
    (pc = "done" /\ op \in GroupOps /\ GroupOperands)
        => /\ GroupPoint(out)
           /\ (op = "Secp256k1_add" /\ a.x # b.x)
                => LET slope == Secp256k1_calc_slope_chord(a, b)
                   IN  /\ slope.tag = "Ok"
                       /\ (slope.num * (a.x.num + Secp256k1_p - b.x.num))
                              % Secp256k1_p
                          = (a.y.num + Secp256k1_p - b.y.num) % Secp256k1_p
           /\ (op = "Secp256k1_double" /\ a.y.num # 0)
                => LET slope == Secp256k1_calc_slope_tang(a)
                   IN  /\ slope.tag = "Ok"
                       /\ (slope.num * 2 * a.y.num) % Secp256k1_p
                          = (3 * a.x.num * a.x.num) % Secp256k1_p

\* C22 witness: the double of a point of the curve is another point of the
\* curve.
C22_Witness ==
    /\ Called("Secp256k1_double")
    /\ CurveOperand(a) /\ OnCurve(a)
    /\ out.tag = "Point" /\ OnCurve(out)
    /\ out # a

\* Bits of n: 0 for 0.
RECURSIVE BitWidth(_)
BitWidth(n) == IF n = 0 THEN 0 ELSE 1 + BitWidth(n \div 2)

\* The call is inside one of the bit loops.
InLoop == pc \in {"mul_loop", "exp_loop", "ec_loop"}

\* The operand the running loop scans.
Scanned == IF pc = "mul_loop" THEN st.rhs ELSE st.exp

\* The iterations done and the bits left to scan never exceed the width.
LoopVariant ==
    /\ InLoop => iters + BitWidth(Scanned) <= WIDTH
    /\ pc = "done" => iters <= WIDTH

\* The stepwise loops return what mul and exp return.
LoopResult ==
    /\ Called("U256_mul") => out = U256_mul(a, b)
    /\ Called("U256_exp") => out = U256_exp(a, k)
    /\ Called("Secp256k1_exp") => out = Secp256k1_exp(a, k)

\* A step taken inside a loop is the return, taken when nothing is left to
\* scan, or an iteration that takes one bit off the scanned operand.
LoopShrinks ==
    InLoop
        => \/ pc' = "done" /\ Scanned = 0 /\ iters' = iters
           \/ /\ pc' = pc
              /\ Scanned # 0
              /\ iters' = iters + 1
              /\ BitWidth(Scanned') = BitWidth(Scanned) - 1

\* C23: the bit loops of the 256-bit mul, the 256-bit exp and the curve
\* scalar_multiply end after at most WIDTH iterations for every input: every
\* iteration takes one bit off the scanned operand, the iterations done and
\* the bits left never exceed WIDTH, and the loop returns when the operand
\* is zero; a running mul does return.
C23_BitLoopsTerminate ==
    /\ [](LoopVariant /\ LoopResult)
    /\ [][LoopShrinks]_vars
    /\ (pc = "mul_loop") ~> (pc = "done")

\* C23 witness: a curve exp that ran the loop over every bit of the width
\* has returned.
C23_Witness ==
    /\ Called("Secp256k1_exp")
    /\ iters = WIDTH
    /\ out = Secp256k1_exp(a, k)

\* C24: for reduced a, b of one field the single-width engine
\* (U64FieldElement) and the widening engine (FieldElement) return the same
\* element for add, sub and mul, sums and doublings above the word included.
C24_EnginesAgree ==
    /\ (Called("U64_add") /\ SameField) => out = FE_add(a, b)
    /\ (Called("U64_sub") /\ SameField) => out = FE_sub(a, b)
    /\ (Called("U64_mul") /\ SameField) => out = FE_mul(a, b)

\* The inversions and the divisions of the three engines.
InvOps == {"U256_inv", "U64_mul_inv", "FE_inv"}

DivOps == {"U256_div", "U64_div", "FE_div"}

\* C25: inv(0) and div(a, 0) return the zero element of the field, without
\* an error, for every accepted modulus and every element a.
C25_DivisionByZeroGivesZero ==
    /\ (pc = "done" /\ op \in InvOps /\ a.tag = "Ok" /\ a.num = 0)
        => out = Ok(0, a.prime)
    /\ (pc = "done" /\ op \in DivOps /\ SameField /\ b.num = 0)
        => out = Ok(0, a.prime)

\* C25 witness: a non-zero element of the 256-bit engine divided by the zero
\* element gave the zero element.
C25_Witness ==
    /\ Called("U256_div")
    /\ SameField
    /\ a.num # 0
    /\ b.num = 0
    /\ out = Ok(0, a.prime)

====
